---- MODULE Spec2Model ----
(***************************************************************************)
(* gologs: a publish/consume helper around two RabbitMQ queues             *)
(* (audit_logs, activity_logs) with one process-wide LogClient.            *)
(*                                                                         *)
(* The program state is the global logClient, the connection/channel pairs *)
(* the initialize calls opened, and the consumer goroutines.  The broker   *)
(* (queues, deliveries, prefetch accounting) is the environment the code   *)
(* calls through amqp091-go.                                               *)
(***************************************************************************)
EXTENDS Integers, Sequences, FiniteSets, TLC

\* ------------------------------------------------------------------ bounds
MaxConns     == 2   \* connection/channel pairs ever opened
MaxMsgs      == 2   \* messages ever placed on the broker
MaxConsumers == 2   \* consume calls that registered a subscription
MaxTotal     == 5   \* pairs + messages + subscriptions ever created

\* --------------------------------------------------------------- constants
AuditTopicName    == "audit_logs"
ActivityTopicName == "activity_logs"
Topics            == {AuditTopicName, ActivityTopicName}
DefaultPrefetch   == 50

\* ------------------------------------------------------------ data model
\* time.Time is an instant; 0 is the zero time a caller leaves unset.
CallerTimes == {0}

AuditLogs ==
  { [Module |-> "UserModule", ActionType |-> "CREATE", SearchKey |-> k,
     Before |-> "{}", After |-> "{}", ActionBy |-> "admin", ActionTime |-> t]
    : k \in {"1", "2"}, t \in CallerTimes }

ActivityLogs ==
  { [UserID |-> "u1", Username |-> "user@example.com", Activity |-> "LOGIN",
     Module |-> "AuthModule", ActivityTime |-> t, IPAddress |-> "",
     DeviceInfo |-> "", Location |-> "", Remarks |-> r]
    : r \in {"ok"}, t \in CallerTimes }

\* A record that no decode produces: the value of a slot before it is set.
NoRecord == [none |-> TRUE]

\* A JSON time value (RFC 3339 text of the instant).
FormatTime(t) == <<"RFC3339", t>>
ParseTime(v)  == v[2]

\* json.Marshal of an AuditLog: the struct tags name the keys.
MarshalAudit(log) ==
  [valid |-> TRUE,
   obj   |-> ("module" :> log.Module @@ "actionType" :> log.ActionType @@
              "searchKey" :> log.SearchKey @@ "before" :> log.Before @@
              "after" :> log.After @@ "actionBy" :> log.ActionBy @@
              "timestamp" :> FormatTime(log.ActionTime))]

\* One optional key of an ActivityLog: omitted from the payload when empty.
OmitEmpty(key, v) == IF v = "" THEN <<>> ELSE (key :> v)

\* json.Marshal of an ActivityLog.
MarshalActivity(log) ==
  [valid |-> TRUE,
   obj   |-> ("user_id" :> log.UserID @@ "username" :> log.Username @@
              "activity" :> log.Activity @@ "module" :> log.Module @@
              "activity_time" :> FormatTime(log.ActivityTime) @@
              OmitEmpty("ip_address", log.IPAddress) @@
              OmitEmpty("device_info", log.DeviceInfo) @@
              OmitEmpty("location", log.Location) @@
              OmitEmpty("remarks", log.Remarks))]

\* A body that json.Unmarshal rejects (a syntax error or a type mismatch).
MalformedBody == [valid |-> FALSE, obj |-> <<>>]

\* One string field of a JSON object: the zero value when the key is absent.
StrField(obj, key) == IF key \in DOMAIN obj THEN obj[key] ELSE ""
\* One time field of a JSON object.
TimeField(obj, key) == IF key \in DOMAIN obj THEN ParseTime(obj[key]) ELSE 0

\* json.Unmarshal into an AuditLog: [err, log].
UnmarshalAudit(body) ==
  IF ~body.valid THEN [err |-> TRUE, log |-> NoRecord]
  ELSE [err |-> FALSE,
        log |-> [Module     |-> StrField(body.obj, "module"),
                 ActionType |-> StrField(body.obj, "actionType"),
                 SearchKey  |-> StrField(body.obj, "searchKey"),
                 Before     |-> StrField(body.obj, "before"),
                 After      |-> StrField(body.obj, "after"),
                 ActionBy   |-> StrField(body.obj, "actionBy"),
                 ActionTime |-> TimeField(body.obj, "timestamp")]]

\* json.Unmarshal into an ActivityLog: [err, log].
UnmarshalActivity(body) ==
  IF ~body.valid THEN [err |-> TRUE, log |-> NoRecord]
  ELSE [err |-> FALSE,
        log |-> [UserID       |-> StrField(body.obj, "user_id"),
                 Username     |-> StrField(body.obj, "username"),
                 Activity     |-> StrField(body.obj, "activity"),
                 Module       |-> StrField(body.obj, "module"),
                 ActivityTime |-> TimeField(body.obj, "activity_time"),
                 IPAddress    |-> StrField(body.obj, "ip_address"),
                 DeviceInfo   |-> StrField(body.obj, "device_info"),
                 Location     |-> StrField(body.obj, "location"),
                 Remarks      |-> StrField(body.obj, "remarks")]]

\* The decode the consume loop of a topic applies.
Unmarshal(topic, body) ==
  IF topic = AuditTopicName THEN UnmarshalAudit(body) ELSE UnmarshalActivity(body)

\* A publish that keeps the caller's timestamp.
StampAuditKeepsCaller(log, t) == log

\* log.ActionTime = time.Now()
StampAudit(log, t) == [log EXCEPT !.ActionTime = t]
\* log.ActivityTime = time.Now()
StampActivity(log, t) == [log EXCEPT !.ActivityTime = t]

\* A record with its timestamp field set aside.
SansTime(topic, log) ==
  IF topic = AuditTopicName THEN [log EXCEPT !.ActionTime = 0]
  ELSE [log EXCEPT !.ActivityTime = 0]
\* The timestamp field of a record.
TimeOf(topic, log) ==
  IF topic = AuditTopicName THEN log.ActionTime ELSE log.ActivityTime

\* The optional prefetchCount *int argument: nil, or a pointer to a value.
NilInt == [set |-> FALSE, val |-> 0]
PrefetchInputs == {NilInt} \cup {[set |-> TRUE, val |-> n] : n \in {0, 1}}

\* ------------------------------------------------------------------ state
VARIABLES
  logClient,   \* the global *LogClient: 0 is nil, else the index of its pair
  conns,       \* the connection/channel pairs opened by initialize calls
  declared,    \* the queues that exist on the broker
  msgs,        \* every message placed on the broker, in publish order
  consumers,   \* the registered subscriptions with their goroutines
  now,         \* the wall clock: the next reading time.Now() returns
  crashed,     \* "no", or the call whose nil dereference killed the process
  closing      \* a Close call is between its two statements

vars == <<logClient, conns, declared, msgs, consumers, now, crashed, closing>>

Init ==
  /\ logClient = 0
  /\ conns = <<>>
  /\ declared = {}
  /\ msgs = <<>>
  /\ consumers = <<>>
  /\ now = 1
  /\ crashed = "no"
  /\ closing = FALSE

\* ----------------------------------------------------------- broker side
\* A channel went down: its unacknowledged deliveries return to the queue.
Requeued(ms, i) ==
  [j \in DOMAIN ms |->
     IF ms[j].st = "unacked" /\ consumers[ms[j].holder].pair = i
     THEN [ms[j] EXCEPT !.st = "ready", !.holder = 0]
     ELSE ms[j]]

\* Room left under the bound on what one run creates.
Room == Len(conns) + Len(msgs) + Len(consumers) < MaxTotal

Alive == crashed = "no"

ChannelOpen(i) == conns[i].ch = "open"

\* The deliveries the broker counts against consumer c.
Unacked(c) == {j \in DOMAIN msgs : msgs[j].st = "unacked" /\ msgs[j].holder = c}

\* basic.qos: a prefetch count of 0 means no limit.
HasCapacity(c) ==
  consumers[c].prefetch = 0 \/ Cardinality(Unacked(c)) < consumers[c].prefetch

\* The consumers of a queue whose delivery stream is open.
Subscribed(topic) ==
  {c \in DOMAIN consumers :
     consumers[c].topic = topic /\ ChannelOpen(consumers[c].pair)}

\* The ready messages of a queue, oldest first.
Ready(topic) == {j \in DOMAIN msgs : msgs[j].topic = topic /\ msgs[j].st = "ready"}

\* A nil dereference: the goroutine panics and the process dies.
Panic(op) ==
  /\ crashed' = op
  /\ UNCHANGED <<logClient, conns, declared, msgs, consumers, now, closing>>

\* -------------------------------------------------------------- initialize
\* initLogClient up to amqp.Dial: the URL check and the dial.
InitDial(topic) ==
  /\ Alive
  /\ \E urlSet \in BOOLEAN, dialOk \in BOOLEAN :
       IF ~urlSet
       THEN UNCHANGED conns      \* ConfigurationError
       ELSE IF ~dialOk
       THEN UNCHANGED conns      \* ConnectionError
       ELSE /\ Len(conns) < MaxConns
            /\ conns' = Append(conns, [topic |-> topic, conn |-> "open",
                                       ch |-> "none", init |-> "running"])
  /\ UNCHANGED <<logClient, declared, msgs, consumers, now, crashed, closing>>

\* A channel failure that returns without closing the connection.
ChannelFailedLeaks(i) == [conns EXCEPT ![i].init = "failed"]

\* conn.Channel() failed: the connection of this call is closed.
ChannelFailed(i) ==
  [conns EXCEPT ![i].conn = "closed", ![i].init = "failed"]

\* initLogClient at conn.Channel().
InitChannel(i) ==
  /\ Alive
  /\ conns[i].init = "running" /\ conns[i].ch = "none"
  /\ \E ok \in BOOLEAN :
       IF ok
       THEN conns' = [conns EXCEPT ![i].ch = "open"]
       ELSE conns' = ChannelFailed(i)      \* ChannelError
  /\ UNCHANGED <<logClient, declared, msgs, consumers, now, crashed, closing>>

\* ch.QueueDeclare failed: the channel and the connection are closed.
DeclareFailed(i) ==
  [conns EXCEPT ![i].ch = "closed", ![i].conn = "closed", ![i].init = "failed"]

\* An initialize call that stores its pair only into an empty slot.
InitDeclareFirstWins(i) ==
  /\ Alive
  /\ conns[i].init = "running" /\ conns[i].ch = "open"
  /\ declared' = declared \cup {conns[i].topic}
  /\ conns' = [conns EXCEPT ![i].init = "ok"]
  /\ logClient' = IF logClient = 0 THEN i ELSE logClient
  /\ UNCHANGED <<msgs, consumers, now, crashed, closing>>

\* An initialize call that clears the slot when its queue declaration fails.
InitDeclareResetsOnFailure(i) ==
  /\ Alive
  /\ conns[i].init = "running" /\ conns[i].ch = "open"
  /\ \E ok \in BOOLEAN :
       IF ok
       THEN /\ declared' = declared \cup {conns[i].topic}
            /\ conns' = [conns EXCEPT ![i].init = "ok"]
            /\ logClient' = i
       ELSE /\ conns' = DeclareFailed(i)
            /\ logClient' = 0
            /\ UNCHANGED declared
  /\ UNCHANGED <<msgs, consumers, now, crashed, closing>>

\* initLogClient from ch.QueueDeclare to the store into logClient.
InitDeclare(i) ==
  /\ Alive
  /\ conns[i].init = "running" /\ conns[i].ch = "open"
  /\ \E ok \in BOOLEAN :
       IF ok
       THEN /\ declared' = declared \cup {conns[i].topic}
            /\ conns' = [conns EXCEPT ![i].init = "ok"]
            /\ logClient' = i
       ELSE /\ conns' = DeclareFailed(i)      \* QueueDeclarationError
            /\ UNCHANGED <<declared, logClient>>
  /\ UNCHANGED <<msgs, consumers, now, crashed, closing>>

InitAuditLogClient == InitDial(AuditTopicName)
InitActivityLogClient == InitDial(ActivityTopicName)

\* ----------------------------------------------------------------- publish
\* A message as the broker stores it, with the history the properties read:
\* orig/at (the record handed to publish and the clock it read), first (the
\* record the handler got the first time, NoRecord before that), nackBy (the
\* consumer whose ack(false) requeued it while no other consumer was
\* subscribed to the queue, 0 once a handler is given it again), ackT (a handler called
\* ack(true) for it: "no", or how the transport call ended),
\* skipped (a consume loop dropped it because its body did not decode).
Message(topic, body, src, orig) ==
  [topic |-> topic, body |-> body, st |-> "ready", holder |-> 0,
   src |-> src, orig |-> orig, at |-> now,
   first |-> NoRecord, nackBy |-> 0, ackT |-> "no", skipped |-> FALSE]

\* channel.Publish on the default exchange, routing key = queue name,
\* mandatory = false: an unroutable message is dropped without an error.
ChannelPublish(topic, body, orig) ==
  IF ~ChannelOpen(logClient)
  THEN UNCHANGED <<msgs, now>>      \* PublishError
  ELSE IF topic \in declared
  THEN /\ msgs' = Append(msgs, Message(topic, body, "lib", orig))
       /\ now' = now + 1
  ELSE UNCHANGED <<msgs, now>>

\* A publish that drops the stored client when the channel is closed.
PublishAuditLogResets(log) ==
  /\ Alive
  /\ Len(msgs) < MaxMsgs
  /\ LET payload == MarshalAudit(StampAudit(log, now))
     IN IF logClient = 0
        THEN Panic("PublishAuditLog")
        ELSE /\ ChannelPublish(AuditTopicName, payload, log)
             /\ logClient' = IF ChannelOpen(logClient) THEN logClient ELSE 0
             /\ UNCHANGED <<conns, declared, consumers, crashed, closing>>

PublishAuditLog(log) ==
  /\ Alive
  /\ Len(msgs) < MaxMsgs
  /\ LET payload == MarshalAudit(StampAudit(log, now))
     IN IF logClient = 0
        THEN Panic("PublishAuditLog")
        ELSE /\ ChannelPublish(AuditTopicName, payload, log)
             /\ UNCHANGED <<logClient, conns, declared, consumers, crashed, closing>>

PublishActivityLog(log) ==
  /\ Alive
  /\ Len(msgs) < MaxMsgs
  /\ LET payload == MarshalActivity(StampActivity(log, now))
     IN IF logClient = 0
        THEN Panic("PublishActivityLog")
        ELSE /\ ChannelPublish(ActivityTopicName, payload, log)
             /\ UNCHANGED <<logClient, conns, declared, consumers, crashed, closing>>

\* Another producer places a body on a queue directly.
ExternalTopics == {AuditTopicName}
ExternalPublish(topic) ==
  /\ Alive
  /\ Len(msgs) < MaxMsgs
  /\ topic \in declared
  /\ msgs' = Append(msgs, Message(topic, MalformedBody, "ext", NoRecord))
  /\ UNCHANGED <<logClient, conns, declared, consumers, now, crashed, closing>>

\* ----------------------------------------------------------------- consume
\* A consume call that hands channel.Qos the default whatever the caller asked.
EffectivePrefetchIgnored(prefetchCount) == DefaultPrefetch

\* The prefetch count handed to channel.Qos.
EffectivePrefetchCount(prefetchCount) ==
  IF prefetchCount.set THEN prefetchCount.val ELSE DefaultPrefetch

\* A registered subscription and its goroutine: pc is "recv" (at range msgs),
\* "handler" (inside the handler) or "done" (the loop ended); want is the
\* prefetchCount argument of the call, prefetch what channel.Qos was given.
Consumer(topic, pair, want, prefetch) ==
  [topic |-> topic, pair |-> pair, want |-> want, prefetch |-> prefetch,
   stream |-> <<>>, pc |-> "recv", cur |-> 0, arg |-> NoRecord]

\* What a consume call on an initialized client returns: the error of
\* channel.Qos (the channel is closed), the error of channel.Consume (the
\* queue does not exist), or nil.
SubscribeError(topic) ==
  IF ~ChannelOpen(logClient) THEN "QoSError"
  ELSE IF topic \notin declared THEN "SubscriptionError"
  ELSE "nil"

\* A consume call that starts its goroutine whatever channel.Consume returned.
SubscribeStartsAnyway(op, topic, prefetchCount) ==
  IF logClient = 0
  THEN Panic(op)
  ELSE /\ Len(consumers) < MaxConsumers
       /\ consumers' = Append(consumers,
            Consumer(topic, logClient, prefetchCount,
                     EffectivePrefetchCount(prefetchCount)))
       /\ UNCHANGED <<logClient, conns, declared, msgs, now, crashed, closing>>

\* channel.Qos, channel.Consume and the go statement of a consume call.
\* basic.consume on a queue that does not exist is a channel exception:
\* the broker closes the channel.
Subscribe(op, topic, prefetchCount) ==
  IF logClient = 0
  THEN Panic(op)
  ELSE IF SubscribeError(topic) = "QoSError"
  THEN UNCHANGED <<logClient, conns, declared, msgs, consumers, now, crashed, closing>>
  ELSE IF SubscribeError(topic) = "SubscriptionError"
  THEN /\ conns' = [conns EXCEPT ![logClient].ch = "closed"]
       /\ msgs' = Requeued(msgs, logClient)
       /\ UNCHANGED consumers
       /\ UNCHANGED <<logClient, declared, now, crashed, closing>>
  ELSE /\ Len(consumers) < MaxConsumers
       /\ consumers' = Append(consumers,
            Consumer(topic, logClient, prefetchCount,
                     EffectivePrefetchCount(prefetchCount)))
       /\ UNCHANGED <<logClient, conns, declared, msgs, now, crashed, closing>>

ConsumeAuditLogs(prefetchCount) ==
  /\ Alive
  /\ Subscribe("ConsumeAuditLogs", AuditTopicName, prefetchCount)

ConsumeActivityLogs(prefetchCount) ==
  /\ Alive
  /\ Subscribe("ConsumeActivityLogs", ActivityTopicName, prefetchCount)

\* The broker dispatches the oldest ready message of the queue to a consumer
\* with room under its prefetch limit.
BrokerDeliver(c) ==
  /\ Alive
  /\ ChannelOpen(consumers[c].pair)
  /\ HasCapacity(c)
  /\ Ready(consumers[c].topic) # {}
  /\ LET j == CHOOSE j \in Ready(consumers[c].topic) :
                \A k \in Ready(consumers[c].topic) : j <= k
     IN /\ msgs' = [msgs EXCEPT ![j].st = "unacked", ![j].holder = c]
        /\ consumers' = [consumers EXCEPT ![c].stream = Append(@, j)]
  /\ UNCHANGED <<logClient, conns, declared, now, crashed, closing>>

\* A loop that rejects what it cannot decode (nack without requeue).
DecodeFailedRejects(c, j) ==
  /\ consumers' = [consumers EXCEPT ![c].stream = Tail(@)]
  /\ msgs' = [msgs EXCEPT ![j].skipped = TRUE, ![j].st = "gone", ![j].holder = 0]

\* json.Unmarshal failed: the error is logged and the loop continues with
\* the next delivery; nothing is sent to the broker for this one.
DecodeFailed(c, j) ==
  /\ consumers' = [consumers EXCEPT ![c].stream = Tail(@)]
  /\ msgs' = [msgs EXCEPT ![j].skipped = TRUE]

\* A loop that takes the newest buffered delivery first.
LoopRecvNewestFirst(c) ==
  /\ Alive
  /\ consumers[c].pc = "recv"
  /\ consumers[c].stream # <<>>
  /\ LET n == Len(consumers[c].stream)
         j == consumers[c].stream[n]
         d == Unmarshal(consumers[c].topic, msgs[j].body)
         rest == SubSeq(consumers[c].stream, 1, n - 1)
     IN IF d.err
        THEN /\ consumers' = [consumers EXCEPT ![c].stream = rest]
             /\ msgs' = [msgs EXCEPT ![j].skipped = TRUE]
        ELSE /\ consumers' = [consumers EXCEPT ![c].stream = rest,
                                ![c].pc = "handler", ![c].cur = j,
                                ![c].arg = d.log]
             /\ msgs' = [msgs EXCEPT
                  ![j].first = IF @ = NoRecord THEN d.log ELSE @,
                  ![j].nackBy = 0]
  /\ UNCHANGED <<logClient, conns, declared, now, crashed, closing>>

\* One iteration of for msg := range msgs, up to the handler call:
\* a body that does not decode is logged and skipped.
LoopRecv(c) ==
  /\ Alive
  /\ consumers[c].pc = "recv"
  /\ consumers[c].stream # <<>>
  /\ LET j == Head(consumers[c].stream)
         d == Unmarshal(consumers[c].topic, msgs[j].body)
     IN IF d.err
        THEN DecodeFailed(c, j)
        ELSE /\ consumers' = [consumers EXCEPT ![c].stream = Tail(@),
                                ![c].pc = "handler", ![c].cur = j,
                                ![c].arg = d.log]
             /\ msgs' = [msgs EXCEPT
                  ![j].first = IF @ = NoRecord THEN d.log ELSE @,
                  ![j].nackBy = 0]
  /\ UNCHANGED <<logClient, conns, declared, now, crashed, closing>>

\* The channel of a subscription is closed and the library closes its
\* delivery stream: what was buffered and not yet taken by the loop is
\* dropped. The loop may take buffered deliveries before this happens.
BufferClosed(c) ==
  /\ Alive
  /\ ~ChannelOpen(consumers[c].pair)
  /\ consumers[c].stream # <<>>
  /\ consumers' = [consumers EXCEPT ![c].stream = <<>>]
  /\ UNCHANGED <<logClient, conns, declared, msgs, now, crashed, closing>>

\* A loop that ends as soon as nothing is buffered.
LoopEndOnEmpty(c) ==
  /\ Alive
  /\ consumers[c].pc = "recv"
  /\ consumers[c].stream = <<>>
  /\ consumers' = [consumers EXCEPT ![c].pc = "done"]
  /\ UNCHANGED <<logClient, conns, declared, msgs, now, crashed, closing>>

\* range msgs ends: the delivery stream was closed.
LoopEnd(c) ==
  /\ Alive
  /\ consumers[c].pc = "recv"
  /\ consumers[c].stream = <<>>
  /\ ~ChannelOpen(consumers[c].pair)
  /\ consumers' = [consumers EXCEPT ![c].pc = "done"]
  /\ UNCHANGED <<logClient, conns, declared, msgs, now, crashed, closing>>

\* A callback that requeues whatever the handler asked.
SettleRequeues(j, ack) == [msgs EXCEPT ![j].st = "ready", ![j].holder = 0]

\* The broker's side of the callback: msg.Ack(false) removes the message,
\* msg.Nack(false, true) requeues it at its place in the queue.
Settle(j, ack) ==
  IF ack THEN [msgs EXCEPT ![j].st = "gone", ![j].holder = 0]
  ELSE [msgs EXCEPT ![j].st = "ready", ![j].holder = 0]

\* A callback that sends nothing to the broker.
AckCallbackSilent(c, ack) == msgs

\* The callback handed to the handler, called with ack: the transport call
\* fails when the channel is closed, and the failure is only logged.
AckCallback(c, ack) ==
  LET j  == consumers[c].cur
      ok == ChannelOpen(consumers[c].pair)
      ms == IF ok THEN Settle(j, ack) ELSE msgs
      alone == Subscribed(consumers[c].topic) = {c}
  IN [ms EXCEPT ![j].nackBy = IF ~ack /\ ok THEN (IF alone THEN c ELSE 0) ELSE @,
                ![j].ackT = IF ack /\ @ # "ok"
                            THEN (IF ok THEN "ok" ELSE "failed") ELSE @]

\* What a handler does with the callback before it returns: it calls it
\* once with true, once with false, or not at all.
HandlerChoices == {"ack", "nack", "none"}

\* A loop that gives up when the transport call of the callback failed.
HandlerStopsOnFailure(c, choice) ==
  /\ Alive
  /\ consumers[c].pc = "handler"
  /\ msgs' = IF choice = "none" THEN msgs ELSE AckCallback(c, choice = "ack")
  /\ consumers' = [consumers EXCEPT
       ![c].pc = IF choice # "none" /\ ~ChannelOpen(consumers[c].pair)
                 THEN "done" ELSE "recv",
       ![c].cur = 0]
  /\ UNCHANGED <<logClient, conns, declared, now, crashed, closing>>

\* A loop that acknowledges for a handler that did not call the callback.
HandlerAutoAcks(c, choice) ==
  /\ Alive
  /\ consumers[c].pc = "handler"
  /\ msgs' = AckCallback(c, choice # "nack")
  /\ consumers' = [consumers EXCEPT ![c].pc = "recv", ![c].cur = 0]
  /\ UNCHANGED <<logClient, conns, declared, now, crashed, closing>>

\* The handler runs and returns to the loop.
Handler(c, choice) ==
  /\ Alive
  /\ consumers[c].pc = "handler"
  /\ msgs' = IF choice = "none" THEN msgs ELSE AckCallback(c, choice = "ack")
  /\ consumers' = [consumers EXCEPT ![c].pc = "recv", ![c].cur = 0]
  /\ UNCHANGED <<logClient, conns, declared, now, crashed, closing>>

\* -------------------------------------------------------------------- close
\* A Close that returns after the channel close.
CloseConnectionSkipped ==
  /\ Alive
  /\ closing
  /\ closing' = FALSE
  /\ UNCHANGED <<logClient, conns, declared, msgs, consumers, now, crashed>>

\* Close, first statement: logClient.channel.Close(), its error discarded
\* (the channel may be closed already).
CloseChannel ==
  /\ Alive
  /\ ~closing
  /\ IF logClient = 0
     THEN Panic("Close")
     ELSE /\ conns' = [conns EXCEPT ![logClient].ch = "closed"]
          /\ msgs' = Requeued(msgs, logClient)
          /\ UNCHANGED consumers
          /\ closing' = TRUE
          /\ UNCHANGED <<logClient, declared, now, crashed>>

\* Close, second statement: logClient.connection.Close(), its error
\* discarded; a connection that closes takes its channel with it.
CloseConnection ==
  /\ Alive
  /\ closing
  /\ conns' = [conns EXCEPT ![logClient].ch = "closed",
                            ![logClient].conn = "closed"]
  /\ msgs' = Requeued(msgs, logClient)
  /\ UNCHANGED consumers
  /\ closing' = FALSE
  /\ UNCHANGED <<logClient, declared, now, crashed>>

\* Close: the channel, then the connection, of the stored pair.
Close == CloseChannel \/ CloseConnection

\* ================================================================ claims
\* The messages a consumer holds that its loop is done with: skipped because
\* the body did not decode, or handled without a call of the callback.
Held(c) ==
  {j \in Unacked(c) :
     /\ consumers[c].cur # j
     /\ \A k \in DOMAIN consumers[c].stream : consumers[c].stream[k] # j}

\* The prefetch limit N of the consume call behind consumer c, as the caller
\* states it: the prefetchCount argument, or 50 when it is nil.
LimitN(c) == IF consumers[c].want.set THEN consumers[c].want.val ELSE 50

\* C1 as claimed: every consumer has at most N deliveries that are neither
\* acknowledged nor negatively acknowledged, N being the prefetchCount of its
\* consume call or 50 when unset.
C1_AtMostN_AsClaimed ==
  \A c \in DOMAIN consumers : Cardinality(Unacked(c)) <= LimitN(c)

\* C1 amended: the bound holds for every N from 1 to 65535 (and for the
\* default); a prefetchCount of 0 asks the broker for no limit at all.
C1_AtMostN ==
  \A c \in DOMAIN consumers :
    LimitN(c) \in 1..65535 => Cardinality(Unacked(c)) <= LimitN(c)

\* C1 witness: a consumer with N = 1 holds one delivery its loop skipped or
\* its handler never acknowledged, and the next message of its queue waits.
C1_Witness ==
  \E c \in DOMAIN consumers :
    /\ LimitN(c) = 1
    /\ ChannelOpen(consumers[c].pair)
    /\ Held(c) # {}
    /\ Ready(consumers[c].topic) # {}

\* C2 as claimed: a message for which a handler has called ack(true) is not
\* out for delivery again, to any consumer.
C2_AckedNeverRedelivered_AsClaimed ==
  \A j \in DOMAIN msgs : msgs[j].ackT # "no" => msgs[j].st # "unacked"

\* C2 amended: once ack(true) was called and its msg.Ack went through, the
\* message is removed from the queue for good: no later consumer, on this or
\* on a later channel, can be handed it.
C2_AckedNeverRedelivered ==
  \A j \in DOMAIN msgs : msgs[j].ackT = "ok" => msgs[j].st = "gone"

\* C2 witness: a message was acknowledged, the client was closed and
\* initialized again, and a fresh consumer of the same queue waits with room.
C2_Witness ==
  \E j \in DOMAIN msgs, c \in DOMAIN consumers :
    /\ msgs[j].ackT = "ok"
    /\ consumers[c].topic = msgs[j].topic
    /\ consumers[c].pair = 2
    /\ conns[1].ch = "closed"
    /\ ChannelOpen(2)
    /\ HasCapacity(c)
    /\ consumers[c].pc = "recv"

\* C5: a message whose body does not decode is never handed to a handler,
\* is neither acknowledged nor negatively acknowledged nor removed, and is
\* back in the queue, ready for a fresh consumer, whenever the channel of the
\* consumer that skipped it is closed.
C5_UndecodableSkipped ==
  \A j \in DOMAIN msgs :
    ~msgs[j].body.valid =>
      /\ msgs[j].first = NoRecord
      /\ \A c \in DOMAIN consumers : consumers[c].cur # j
      /\ msgs[j].ackT = "no" /\ msgs[j].nackBy = 0
      /\ msgs[j].st # "gone"
      /\ msgs[j].st = "unacked" => ChannelOpen(consumers[msgs[j].holder].pair)

\* C5 witness: an undecodable message was skipped by a consumer whose channel
\* was then closed, and is now delivered to a fresh consumer on a new channel.
C5_Witness ==
  \E j \in DOMAIN msgs :
    /\ ~msgs[j].body.valid /\ msgs[j].skipped
    /\ msgs[j].st = "unacked"
    /\ consumers[msgs[j].holder].pair = 2
    /\ consumers[msgs[j].holder].stream = <<j>>
    /\ conns[1].ch = "closed"
    /\ \E c \in DOMAIN consumers : consumers[c].pair = 1

\* C6 as claimed: no publish or consume call made before an initialize call
\* succeeded dereferences the nil client; it returns an error instead.
C6_NotInitializedIsAnError ==
  crashed \notin {"PublishAuditLog", "PublishActivityLog",
                  "ConsumeAuditLogs", "ConsumeActivityLogs"}

\* The pairs that successful initialize calls for a log kind left open.
LivePairs(topic) ==
  {i \in DOMAIN conns :
     conns[i].topic = topic /\ conns[i].init = "ok" /\ conns[i].conn = "open"}

\* C7 as claimed: at most one connection/channel pair per log kind is open;
\* a second successful initialize leaves no earlier pair open.
C7_OneLivePairPerKind ==
  \A topic \in Topics : Cardinality(LivePairs(topic)) <= 1

\* C8: when an initialize call has returned an error, the connection and the
\* channel it opened are closed.
C8_FailedInitClosesAll ==
  \A i \in DOMAIN conns :
    conns[i].init = "failed" => conns[i].conn = "closed" /\ conns[i].ch # "open"

\* C8 witness: one initialize call failed at conn.Channel() and another at
\* ch.QueueDeclare.
C8_Witness ==
  \E i, k \in DOMAIN conns :
    /\ conns[i].init = "failed" /\ conns[i].ch = "none"
    /\ conns[k].init = "failed" /\ conns[k].ch = "closed"

\* C9: the record a handler is given for a published message equals the
\* published record in every field but the timestamp, and its timestamp is
\* the clock reading of the publish call, which is not later than the
\* handler invocation.
C9_RoundTrip ==
  \A c \in DOMAIN consumers :
    (consumers[c].pc = "handler" /\ msgs[consumers[c].cur].src = "lib") =>
      LET m == msgs[consumers[c].cur]
          t == consumers[c].topic
      IN /\ SansTime(t, consumers[c].arg) = SansTime(t, m.orig)
         /\ TimeOf(t, consumers[c].arg) = m.at
         /\ m.at <= now

\* C9 witness: a handler holds a published activity record whose caller-set
\* timestamp differs from the publish-time clock reading.
C9_Witness ==
  \E c \in DOMAIN consumers :
    /\ consumers[c].pc = "handler"
    /\ consumers[c].topic = ActivityTopicName
    /\ msgs[consumers[c].cur].src = "lib"
    /\ TimeOf(ActivityTopicName, msgs[consumers[c].cur].orig) # msgs[consumers[c].cur].at
    /\ consumers[c].arg.IPAddress = "" /\ consumers[c].arg.Remarks = "ok"

\* C10: a publish call, whatever its outcome, leaves the stored client, the
\* open/closed status of every connection and channel, and the set of
\* subscriptions as they were.
C10_PublishFrame ==
  [][((\E log \in AuditLogs : PublishAuditLog(log)) \/
      (\E log \in ActivityLogs : PublishActivityLog(log)))
     => UNCHANGED <<logClient, conns, consumers>>]_vars

\* C10 witness: with a message published earlier and a subscription
\* registered, the stored channel is closed and a publish call can be made.
C10_Witness ==
  /\ logClient # 0 /\ ~ChannelOpen(logClient)
  /\ consumers # <<>>
  /\ \E j \in DOMAIN msgs : msgs[j].src = "lib"
  /\ ENABLED (\E log \in AuditLogs : PublishAuditLog(log))

\* Message j was requeued by an ack(false) of a consumer that was, and still
\* is, the only one subscribed to its queue, with its stream open, and no
\* handler was given the message since.
AwaitsRedelivery(j) ==
  /\ Alive
  /\ j \in DOMAIN msgs
  /\ msgs[j].nackBy # 0
  /\ Subscribed(msgs[j].topic) = {msgs[j].nackBy}

\* Every operation, with the total of what a run creates bounded.
Next ==
  \/ Room /\ InitAuditLogClient
  \/ Room /\ InitActivityLogClient
  \/ \E i \in DOMAIN conns : InitChannel(i)
  \/ \E i \in DOMAIN conns : InitDeclare(i)
  \/ Room /\ \E log \in AuditLogs : PublishAuditLog(log)
  \/ Room /\ \E log \in ActivityLogs : PublishActivityLog(log)
  \/ Room /\ \E topic \in ExternalTopics : ExternalPublish(topic)
  \/ Room /\ \E p \in PrefetchInputs : ConsumeAuditLogs(p)
  \/ Room /\ \E p \in PrefetchInputs : ConsumeActivityLogs(p)
  \/ \E c \in DOMAIN consumers : BrokerDeliver(c)
  \/ \E c \in DOMAIN consumers : LoopRecv(c)
  \/ \E c \in DOMAIN consumers : LoopEnd(c)
  \/ \E c \in DOMAIN consumers : BufferClosed(c)
  \/ \E c \in DOMAIN consumers, choice \in HandlerChoices : Handler(c, choice)
  \/ Close

Spec == Init /\ [][Next]_vars

\* A prefetch count of one.
OneSlot == [set |-> TRUE, val |-> 1]

\* One audit record.
OneAuditLog == CHOOSE log \in AuditLogs : log.SearchKey = "1"

\* The audit side alone, up to the bounds of each kind, with one record
\* published again and again and every consumer subscribed for one message
\* at a time.
NextAudit ==
  \/ InitAuditLogClient
  \/ \E i \in DOMAIN conns : InitChannel(i)
  \/ \E i \in DOMAIN conns : InitDeclare(i)
  \/ PublishAuditLog(OneAuditLog)
  \/ \E topic \in ExternalTopics : ExternalPublish(topic)
  \/ ConsumeAuditLogs(OneSlot)
  \/ \E c \in DOMAIN consumers : BrokerDeliver(c)
  \/ \E c \in DOMAIN consumers : LoopRecv(c)
  \/ \E c \in DOMAIN consumers : LoopEnd(c)
  \/ \E c \in DOMAIN consumers : BufferClosed(c)
  \/ \E c \in DOMAIN consumers, choice \in HandlerChoices : Handler(c, choice)
  \/ Close

SpecAudit == Init /\ [][NextAudit]_vars

\* The broker dispatches message j to consumer c.
Dispatch(c, j) ==
  /\ c \in DOMAIN consumers /\ j \in DOMAIN msgs
  /\ msgs[j].st = "ready"
  /\ BrokerDeliver(c)
  /\ msgs'[j].st = "unacked"

\* The broker dispatches a message as soon as it heads its queue and a
\* consumer has room for it, and every consumer goroutine keeps running:
\* it takes the next delivery, and its handler returns. A Close call that
\* has begun runs to its end.
Fairness ==
  /\ WF_vars(CloseConnection)
  /\ \A c \in 1..MaxConsumers :
       /\ \A j \in 1..MaxMsgs : SF_vars(Dispatch(c, j))
       /\ WF_vars(c \in DOMAIN consumers /\ LoopRecv(c))
       /\ WF_vars(c \in DOMAIN consumers /\ LoopEnd(c))
       /\ WF_vars(c \in DOMAIN consumers /\
                  \E choice \in HandlerChoices : Handler(c, choice))

SpecAuditFair == SpecAudit /\ Fairness

\* The prefetch arguments that set a limit of at least one.
LimitedPrefetch == {p \in PrefetchInputs : EffectivePrefetchCount(p) >= 1}

\* The end-to-end scenario: audit records are published through initialized
\* clients, one consumer subscribes with a limit of at least one, and its
\* handler calls ack(true) once for every record; nothing is closed.
NextScenario ==
  \/ InitAuditLogClient
  \/ \E i \in DOMAIN conns : InitChannel(i)
  \/ \E i \in DOMAIN conns : InitDeclare(i)
  \/ \E log \in AuditLogs : PublishAuditLog(log)
  \/ consumers = <<>> /\ \E p \in LimitedPrefetch : ConsumeAuditLogs(p)
  \/ \E c \in DOMAIN consumers : BrokerDeliver(c)
  \/ \E c \in DOMAIN consumers : LoopRecv(c)
  \/ \E c \in DOMAIN consumers : Handler(c, "ack")

SpecScenario == Init /\ [][NextScenario]_vars /\ Fairness

\* C3: a message requeued by ack(false) of a consumer, with no other consumer
\* subscribed to the queue, is eventually handed to that consumer's handler
\* again or the consumer's stream is closed; and every handler invocation
\* for a message gets the record the first invocation got.
C3_NackRedelivers ==
  /\ \A j \in 1..MaxMsgs : AwaitsRedelivery(j) ~> ~AwaitsRedelivery(j)
  /\ [](\A c \in DOMAIN consumers :
          consumers[c].pc = "handler" =>
            consumers[c].arg = msgs[consumers[c].cur].first)

\* C4: in the end-to-end scenario no handler invocation is for a message a
\* handler was given before, every invocation gets one of the published
\* records (timestamp aside), namely the one the message was published
\* with, and every published message is eventually given to the handler and
\* removed from the queue.
C4_ExactlyOnce ==
  /\ [][\A c \in DOMAIN consumers :
          (consumers[c].pc = "recv" /\ consumers'[c].pc = "handler") =>
            msgs[consumers'[c].cur].first = NoRecord]_vars
  /\ [](\A c \in DOMAIN consumers :
          consumers[c].pc = "handler" =>
            /\ SansTime(AuditTopicName, consumers[c].arg)
                 = SansTime(AuditTopicName, msgs[consumers[c].cur].orig)
            /\ \E log \in AuditLogs :
                 SansTime(AuditTopicName, consumers[c].arg)
                   = SansTime(AuditTopicName, log))
  /\ \A j \in 1..MaxMsgs :
       (j \in DOMAIN msgs /\ consumers # <<>>) ~>
         (j \in DOMAIN msgs /\ msgs[j].first # NoRecord /\ msgs[j].st = "gone")

\* C4 witness: every record of the scenario, each with its own content, was
\* given to the one consumer's handler and acknowledged.
C4_Witness ==
  /\ Len(consumers) = 1 /\ consumers[1].pc = "recv"
  /\ Len(msgs) = MaxMsgs
  /\ \A j \in DOMAIN msgs :
       /\ msgs[j].src = "lib" /\ msgs[j].st = "gone" /\ msgs[j].ackT = "ok"
       /\ SansTime(AuditTopicName, msgs[j].first)
            = SansTime(AuditTopicName, msgs[j].orig)
  /\ \A j, k \in DOMAIN msgs :
       j # k => SansTime(AuditTopicName, msgs[j].orig)
                  # SansTime(AuditTopicName, msgs[k].orig)
\* A consume call for a queue is made on an initialized client.
ConsumeCall(topic) ==
  /\ logClient # 0
  /\ IF topic = AuditTopicName
     THEN \E p \in PrefetchInputs : ConsumeAuditLogs(p)
     ELSE \E p \in PrefetchInputs : ConsumeActivityLogs(p)

\* C11: a consume call on an initialized client that returns an error (of
\* channel.Qos or of channel.Consume, the only two) starts no consumer task
\* and invokes no handler; one that returns nil has registered exactly one
\* new subscription whose task waits at its stream, with no message
\* delivered, decoded or handled by the call itself.
C11_ConsumeErrors ==
  [][\A topic \in Topics :
       ConsumeCall(topic) =>
         /\ SubscribeError(topic) \in {"QoSError", "SubscriptionError", "nil"}
         /\ SubscribeError(topic) # "nil" =>
              /\ Len(consumers') = Len(consumers)
              /\ \A c \in DOMAIN consumers :
                   /\ consumers'[c].pc = consumers[c].pc
                   /\ consumers'[c].cur = consumers[c].cur
         /\ SubscribeError(topic) = "nil" =>
              /\ Len(consumers') = Len(consumers) + 1
              /\ \A c \in DOMAIN consumers : consumers'[c] = consumers[c]
              /\ consumers'[Len(consumers')].pc = "recv"
              /\ consumers'[Len(consumers')].stream = <<>>
              /\ consumers'[Len(consumers')].pair = logClient
              /\ msgs' = msgs]_vars

\* C11 witness: a consume call failed at registration (the activity queue
\* was never declared, the channel was closed by the broker) after an
\* earlier consume call on the same client had succeeded.
C11_Witness ==
  /\ logClient # 0
  /\ conns[logClient].ch = "closed" /\ conns[logClient].conn = "open"
  /\ \E c \in DOMAIN consumers : consumers[c].pair = logClient
  /\ \A c \in DOMAIN consumers : consumers[c].topic = AuditTopicName
  /\ ActivityTopicName \notin declared
\* C12: when Close returns on an initialized client the stored channel and
\* the stored connection are closed and nothing was raised; the connection
\* of an initialized pair is closed only by a Close call that has gone
\* through its channel close; and the channel close, failed or not, is
\* always followed by the connection close.
C12_CloseBestEffort ==
  /\ [][CloseConnection =>
          /\ conns'[logClient'].ch = "closed"
          /\ conns'[logClient'].conn = "closed"
          /\ crashed' = "no"]_vars
  /\ [][\A i \in DOMAIN conns :
          (conns[i].init = "ok" /\ conns[i].conn = "open"
             /\ conns'[i].conn = "closed") => closing]_vars
  /\ [][(CloseChannel /\ logClient # 0) =>
          (closing' /\ crashed' = "no" /\ conns'[logClient].ch = "closed")]_vars
  /\ [](closing => ENABLED CloseConnection)

\* C12 witness: Close has returned on the only initialized client, which
\* had a subscription: its channel and connection are closed, nothing was
\* raised, and the consumer task of the subscription has ended.
C12_Witness ==
  /\ logClient # 0 /\ ~closing /\ Alive
  /\ conns[logClient].ch = "closed" /\ conns[logClient].conn = "closed"
  /\ ActivityTopicName \notin declared
  /\ \E c \in DOMAIN consumers :
       consumers[c].pair = logClient /\ consumers[c].pc = "done"
  /\ Len(consumers) = 1 /\ Len(conns) = 1
\* The handler of consumer c is invoked in this step.
Invoked(c) ==
  consumers[c].pc # "handler" /\ consumers'[c].pc = "handler"

\* C13: a consumer task invokes its handler only when its previous
\* invocation has returned, so it is inside at most one invocation, for one
\* message; and it takes deliveries in dispatch order: the broker adds each
\* dispatched message behind those already on the stream, and the message
\* an invocation is for is the one dispatched before all that still wait,
\* whose order stays as it was.
C13_InOrderOneAtATime ==
  /\ [](\A c \in DOMAIN consumers :
          consumers[c].cur # 0 <=> consumers[c].pc = "handler")
  /\ [][\A c \in DOMAIN consumers :
          /\ Invoked(c) =>
               /\ consumers[c].pc = "recv" /\ consumers[c].cur = 0
               /\ consumers[c].stream
                    = <<consumers'[c].cur>> \o consumers'[c].stream
               /\ Unmarshal(consumers[c].topic,
                            msgs[consumers'[c].cur].body).log = consumers'[c].arg
          /\ BrokerDeliver(c) =>
               \E j \in DOMAIN msgs :
                 /\ msgs[j].st = "ready" /\ msgs'[j].holder = c
                 /\ consumers'[c].stream = Append(consumers[c].stream, j)]_vars

\* C13 witness: a handler runs for one message while a second one, which
\* the broker dispatched to the same consumer later, waits on the stream.
C13_Witness ==
  \E c \in DOMAIN consumers :
    /\ consumers[c].pc = "handler"
    /\ consumers[c].cur = 1
    /\ consumers[c].stream = <<2>>
    /\ msgs[1].body.valid /\ msgs[2].body.valid
\* C14: a consumer task has ended only if the channel of its subscription
\* is closed; no step of the loop over a delivery (a decode failure, a
\* handler return with ack, nack or neither) ends it; and once the channel
\* it was started on is closed, as Close does for the stored client, the
\* task eventually ends.
C14_TaskEndsOnClose ==
  /\ [](\A c \in DOMAIN consumers :
          consumers[c].pc = "done" => ~ChannelOpen(consumers[c].pair))
  /\ [][\A c \in DOMAIN consumers :
          (LoopRecv(c) \/ \E choice \in HandlerChoices : Handler(c, choice))
            => consumers'[c].pc # "done"]_vars
  /\ \A c \in 1..MaxConsumers :
       (c \in DOMAIN consumers /\ ~ChannelOpen(consumers[c].pair))
         ~> (c \in DOMAIN consumers /\ consumers[c].pc = "done")

\* C14 witness: the only task, which had handled a message and then skipped
\* an undecodable one, ended after Close closed the client it was started
\* on.
C14_Witness ==
  /\ Len(consumers) = 1
  /\ consumers[1].pc = "done"
  /\ consumers[1].pair = logClient
  /\ conns[logClient].conn = "closed" /\ ~closing
  /\ \E j \in DOMAIN msgs : msgs[j].ackT = "ok"
  /\ \E j \in DOMAIN msgs : msgs[j].skipped
\* C15: when the handler calls the callback and the transport call fails
\* (the channel is closed), nothing is raised, the broker's view of every
\* message is unchanged, and the task is back at its stream with what was
\* buffered still there; and a task at its stream always takes the next
\* buffered delivery.
C15_AckFailureNotEscalated ==
  /\ [][\A c \in DOMAIN consumers :
          ((Handler(c, "ack") \/ Handler(c, "nack"))
             /\ ~ChannelOpen(consumers[c].pair)) =>
            /\ crashed' = "no"
            /\ consumers'[c].pc = "recv"
            /\ consumers'[c].stream = consumers[c].stream
            /\ \A j \in DOMAIN msgs :
                 msgs'[j].st = msgs[j].st /\ msgs'[j].holder = msgs[j].holder]_vars
  /\ [](\A c \in DOMAIN consumers :
          (Alive /\ consumers[c].pc = "recv" /\ consumers[c].stream # <<>>)
            => ENABLED LoopRecv(c))

\* C15 witness: the ack of the only consumer failed for one message because
\* the channel had been closed, and its handler is now running for the next
\* message of the stream.
C15_Witness ==
  /\ Len(consumers) = 1
  /\ ~ChannelOpen(consumers[1].pair)
  /\ consumers[1].pc = "handler"
  /\ \E j \in DOMAIN msgs :
       j # consumers[1].cur /\ msgs[j].ackT = "failed"
\* The messages consumer c holds whose handler returned without calling the
\* callback.
Unsettled(c) == {j \in Held(c) : msgs[j].body.valid}

\* C16: a handler return without a call of the callback sends nothing to
\* the broker; the message then stays unacknowledged with its consumer, and
\* so counted against the prefetch limit and out of reach of every
\* consumer, across every step that leaves the consumer's channel open; the
\* step that closes the channel puts it back in the queue, ready.
C16_UnsettledStaysUnacked ==
  /\ [][\A c \in DOMAIN consumers : Handler(c, "none") => msgs' = msgs]_vars
  /\ [][\A c \in DOMAIN consumers : \A j \in Unsettled(c) :
          IF conns'[consumers[c].pair].ch = "open"
          THEN /\ msgs'[j].st = "unacked" /\ msgs'[j].holder = c
               /\ j \in Unacked(c)'
               /\ \A d \in DOMAIN consumers' :
                    /\ d # c => j \notin Unacked(d)'
                    /\ \A k \in DOMAIN consumers'[d].stream :
                         consumers'[d].stream[k] = j =>
                           (d \in DOMAIN consumers /\
                            consumers'[d].stream = consumers[d].stream)
          ELSE msgs'[j].st = "ready"]_vars
  /\ [](\A c \in DOMAIN consumers :
          (consumers[c].prefetch = 1 /\ Unsettled(c) # {})
            => ~ENABLED BrokerDeliver(c))

\* C16 witness: a consumer with a limit of one holds a message whose handler
\* returned without calling the callback, while a second consumer of the
\* queue waits with room and an empty stream.
C16_Witness ==
  \E c, d \in DOMAIN consumers :
    /\ c # d
    /\ consumers[c].topic = consumers[d].topic
    /\ consumers[c].prefetch = 1
    /\ Unsettled(c) # {}
    /\ ChannelOpen(consumers[c].pair) /\ ChannelOpen(consumers[d].pair)
    /\ consumers[d].pc = "recv" /\ consumers[d].stream = <<>>
    /\ HasCapacity(d)
\* C17 as claimed: whenever an initialize call has succeeded and a publish
\* call would return no error (the stored channel is open), the queue of
\* either record kind is declared, so that the broker stores the message
\* of a publish call of that kind instead of dropping it, whichever of the
\* two initialize calls it was that succeeded.
C17_PublishedIsStored ==
  \A topic \in Topics :
    (Alive /\ logClient # 0 /\ ChannelOpen(logClient)) => topic \in declared
\* C18: initialize calls overlap freely, and each one that succeeds stores
\* its own pair, so the slot holds the pair of the call that wrote last;
\* whatever other pair is open, a publish stores a message only through the
\* channel of the stored pair, a consume call subscribes on the stored
\* pair, and the statements of Close touch the stored pair alone.
C18_LastWriterWins ==
  /\ [][\A i \in DOMAIN conns :
          (InitDeclare(i) /\ conns'[i].init = "ok") => logClient' = i]_vars
  /\ [](logClient # 0 => conns[logClient].init = "ok")
  /\ [][(Len(msgs') > Len(msgs) /\ msgs'[Len(msgs')].src = "lib")
          => (logClient # 0 /\ ChannelOpen(logClient))]_vars
  /\ [][Len(consumers') > Len(consumers)
          => consumers'[Len(consumers')].pair = logClient]_vars
  /\ [][((CloseChannel \/ CloseConnection) /\ logClient # 0) =>
          /\ conns'[logClient] # conns[logClient] \/ conns' = conns
          /\ \A i \in DOMAIN conns : i # logClient => conns'[i] = conns[i]]_vars

\* C18 witness: two initialize calls overlapped and both succeeded; the one
\* that dialed first wrote last; Close has then closed its pair and left
\* the other pair open.
C18_Witness ==
  /\ Len(conns) = 2
  /\ conns[1].init = "ok" /\ conns[2].init = "ok"
  /\ logClient = 1
  /\ conns[1].conn = "closed" /\ ~closing
  /\ conns[2].conn = "open" /\ conns[2].ch = "open"
\* C19: the step at which an initialize call fails (at the channel or at
\* the queue declaration; a missing URL or a failed dial changes nothing at
\* all) leaves the slot as it was, unset or holding the same pair, and
\* leaves every other pair, the queues, the messages and the subscriptions
\* untouched, so a pair stored earlier stays as open and usable as it was.
C19_FailedInitKeepsSlot ==
  [][\A i \in DOMAIN conns :
       ((InitChannel(i) \/ InitDeclare(i)) /\ conns'[i].init = "failed") =>
         /\ logClient' = logClient
         /\ \A k \in DOMAIN conns : k # i => conns'[k] = conns[k]
         /\ UNCHANGED <<declared, msgs, consumers, crashed>>
         /\ logClient # 0 =>
              (ChannelOpen(logClient) <=> conns'[logClient].ch = "open")]_vars

\* C19 witness: of two initialize calls one succeeded and the other failed
\* at its queue declaration; the slot holds the pair of the one that
\* succeeded, open, and a message published through it is with the handler
\* of a consumer subscribed on it.
C19_Witness ==
  /\ Len(conns) = 2
  /\ logClient = 1 /\ conns[1].init = "ok" /\ ChannelOpen(1)
  /\ conns[2].init = "failed" /\ conns[2].ch = "closed"
  /\ \E c \in DOMAIN consumers, j \in DOMAIN msgs :
       /\ consumers[c].pair = 1 /\ consumers[c].pc = "handler"
       /\ consumers[c].cur = j /\ msgs[j].src = "lib"
====
